---- MODULE Spec2Model ----
(***************************************************************************)
(* Orchestration core of the research-briefing agent: the plan normalizer, *)
(* the sequential execution engine and the hybrid security filter.         *)
(*                                                                         *)
(* Python strings are modelled as sequences of one-character strings, so   *)
(* that lower(), strip(), split() and the regex pass are computed and not  *)
(* assumed.  Python dicts (step args, the run context) are functions from  *)
(* keys (TLA+ strings) to values; a missing key is a key outside DOMAIN.   *)
(* List indices are 0-based as in the source; None is modelled as -1.      *)
(***************************************************************************)
EXTENDS Integers, Sequences, FiniteSets, TLC

VARIABLES
    pc,                      \* position of the operation under way
    instruction,             \* run(instruction, ...)
    internal_document_text,  \* run(..., internal_document_text) / normalize_plan's second argument
    sensitive_terms,         \* ResearchBriefingAgent.sensitive_terms
    enable_live_web,         \* ResearchBriefingAgent.enable_live_web
    rawPlan,                 \* the plan returned by plan(instruction), before normalization
    plan,                    \* the plan after normalize_plan
    renorm,                  \* normalize_plan applied to the normalized plan again
    idx,                     \* index of the step the engine's loop is at
    ctx,                     \* the run's context dict
    draft_document,          \* run()'s local draft_document
    redactions,              \* run()'s local redactions
    trace,                   \* the list of trace events
    final_doc,               \* AgentRunResult.final_document
    hf,                      \* one call of hybrid_security_filter: arguments and outcome
    pj,                      \* one call of plan_with_json_retries: its locals and outcome
    cj,                      \* one call of coerce_to_json_text / extract_first_json_object
    runs                     \* the number of run() calls made on the agent, this one included

vars == <<pc, instruction, internal_document_text, sensitive_terms, enable_live_web, rawPlan, plan,
          renorm, idx, ctx, draft_document, redactions, trace, final_doc, hf, pj, cj, runs>>

None == -1

(***************************************************************************)
(* str helpers                                                             *)
(***************************************************************************)
Whitespace == {" ", "\t", "\n"}

UpperLetters == <<"A","B","C","D","E","F","G","H","I","J","K","L","M",
                  "N","O","P","Q","R","S","T","U","V","W","X","Y","Z">>

LowerLetters == <<"a","b","c","d","e","f","g","h","i","j","k","l","m",
                  "n","o","p","q","r","s","t","u","v","w","x","y","z">>

LowerCh(c) ==
    IF \E i \in DOMAIN UpperLetters : UpperLetters[i] = c
    THEN LowerLetters[CHOOSE i \in DOMAIN UpperLetters : UpperLetters[i] = c]
    ELSE c

\* str.lower()
Lower(s) == [i \in DOMAIN s |-> LowerCh(s[i])]

RECURSIVE LStripChars(_, _)
LStripChars(s, cs) ==
    IF s /= <<>> /\ Head(s) \in cs THEN LStripChars(Tail(s), cs) ELSE s

RECURSIVE RStripChars(_, _)
RStripChars(s, cs) ==
    IF s /= <<>> /\ s[Len(s)] \in cs THEN RStripChars(SubSeq(s, 1, Len(s) - 1), cs) ELSE s

\* str.strip(chars)
StripChars(s, cs) == RStripChars(LStripChars(s, cs), cs)

\* str.strip()
Strip(s) == StripChars(s, Whitespace)

S_final == <<"f","i","n","a","l">>
S_internal == <<"i","n","t","e","r","n","a","l">>
S_plain == <<"p","l","a","i","n">>
S_briefing == <<"b","r","i","e","f","i","n","g">>
S_en == <<"e","n">>
S_english == <<"e","n","g","l","i","s","h">>

(***************************************************************************)
(* dict and list helpers                                                   *)
(***************************************************************************)
EmptyDict == <<>>

\* d.get(k, default)
Get(d, k, default) == IF k \in DOMAIN d THEN d[k] ELSE default

\* d[k] = v
Put(d, k, v) == [x \in (DOMAIN d) \cup {k} |-> IF x = k THEN v ELSE d[x]]

\* d.setdefault(k, v)
SetDefault(d, k, v) == IF k \in DOMAIN d THEN d ELSE Put(d, k, v)

Min2(a, b) == IF a <= b THEN a ELSE b

SetMin(S) == CHOOSE m \in S : \A x \in S : m <= x

\* next((i for i in S), None), for a set S of indexes taken in increasing order
FirstOf(S) == IF S = {} THEN None ELSE SetMin(S)

\* l.insert(i, x), for 0 <= i <= len(l)
ListInsert(l, i, x) == SubSeq(l, 1, i) \o <<x>> \o SubSeq(l, i + 1, Len(l))

\* l with l.pop(i) done
ListPop(l, i) == SubSeq(l, 1, i) \o SubSeq(l, i + 2, Len(l))

(***************************************************************************)
(* Plan model                                                              *)
(***************************************************************************)
ToolStep(tool, args) == [tool |-> tool, args |-> args]

AgentPlan(company_name, target_language, steps) ==
    [company_name |-> company_name, target_language |-> target_language, steps |-> steps]

SecurityStep == ToolStep("security_filter", [document |-> <<>>])

InternalTranslateStep(target_language) ==
    ToolStep("translate_document",
             [document |-> <<>>, target_language |-> target_language,
              source |-> S_internal, mode |-> S_plain])

FinalTranslateStep(target_language) ==
    ToolStep("translate_document",
             [document |-> <<>>, target_language |-> target_language,
              source |-> S_final, mode |-> S_briefing])

IsSecurity(s) == s.tool = "security_filter"

IsGenerate(s) == s.tool = "generate_document"

\* s.tool == "translate_document" and (s.args or {}).get("source", "internal") != "final"
IsNonFinalTranslate(s) ==
    s.tool = "translate_document" /\ Get(s.args, "source", S_internal) /= S_final

\* s.tool == "translate_document" and (s.args or {}).get("source") == "final"
IsFinalTranslate(s) ==
    s.tool = "translate_document" /\ "source" \in DOMAIN s.args /\ s.args["source"] = S_final

\* the indexes i of enumerate(steps) whose step is of each kind
SecurityIndexes(steps) == {i \in 0..(Len(steps) - 1) : IsSecurity(steps[i + 1])}

GenerateIndexes(steps) == {i \in 0..(Len(steps) - 1) : IsGenerate(steps[i + 1])}

NonFinalTranslateIndexes(steps) ==
    {i \in 0..(Len(steps) - 1) : IsNonFinalTranslate(steps[i + 1])}

FinalTranslateIndexes(steps) == {i \in 0..(Len(steps) - 1) : IsFinalTranslate(steps[i + 1])}

(***************************************************************************)
(* normalize_plan                                                          *)
(***************************************************************************)
\* bool((internal_document_text or "").strip())
NonBlank(text) == Strip(text) /= <<>>

\* (A) remove every security_filter step, append the canonical one
RuleA_KeepExisting(steps) == steps \o <<SecurityStep>>

RuleA(steps) == SelectSeq(steps, LAMBDA s : ~IsSecurity(s)) \o <<SecurityStep>>

\* (B) with an internal document: a non-final translate before generate_document
RuleB_InsertAfter(steps, text, target_language) ==
    IF ~NonBlank(text) THEN steps
    ELSE LET gen_idx == FirstOf(GenerateIndexes(steps))
             trans_idx == FirstOf(NonFinalTranslateIndexes(steps))
         IN  IF gen_idx = None THEN steps
             ELSE IF trans_idx = None
                  THEN ListInsert(steps, gen_idx + 1, InternalTranslateStep(target_language))
                  ELSE steps

\* (B) that is skipped when the target language is English
RuleB_EnglishSkips(steps, text, target_language) ==
    IF ~NonBlank(text) \/ Strip(Lower(target_language)) \in {<<"e","n">>, <<>>} THEN steps
    ELSE LET gen_idx == FirstOf(GenerateIndexes(steps))
             trans_idx == FirstOf(NonFinalTranslateIndexes(steps))
         IN  IF gen_idx = None THEN steps
             ELSE IF trans_idx = None
                  THEN ListInsert(steps, gen_idx, InternalTranslateStep(target_language))
                  ELSE IF trans_idx > gen_idx
                       THEN ListInsert(ListPop(steps, trans_idx), gen_idx, steps[trans_idx + 1])
                       ELSE steps

\* (B) that copies the late translate step in front of generate_document and
\* leaves the original where it was
RuleB_CopyNoPop(steps, text, target_language) ==
    IF ~NonBlank(text) THEN steps
    ELSE LET gen_idx == FirstOf(GenerateIndexes(steps))
             trans_idx == FirstOf(NonFinalTranslateIndexes(steps))
         IN  IF gen_idx = None THEN steps
             ELSE IF trans_idx = None
                  THEN ListInsert(steps, gen_idx, InternalTranslateStep(target_language))
                  ELSE IF trans_idx > gen_idx
                       THEN ListInsert(steps, gen_idx, steps[trans_idx + 1])
                       ELSE steps

RuleB(steps, text, target_language) ==
    IF ~NonBlank(text) THEN steps
    ELSE LET gen_idx == FirstOf(GenerateIndexes(steps))
             trans_idx == FirstOf(NonFinalTranslateIndexes(steps))
         IN  IF gen_idx = None THEN steps
             ELSE IF trans_idx = None
                  THEN ListInsert(steps, gen_idx, InternalTranslateStep(target_language))
                  ELSE IF trans_idx > gen_idx
                       THEN ListInsert(ListPop(steps, trans_idx), gen_idx, steps[trans_idx + 1])
                       ELSE steps

\* tl = (plan.target_language or "en").lower().strip()
NormalizedLanguage(target_language) ==
    Strip(Lower(IF target_language = <<>> THEN S_en ELSE target_language))

IsEnglish(target_language) == NormalizedLanguage(target_language) \in {S_en, S_english}

\* (C) with a non-English target: a final translate before security_filter
RuleC_NoExistingCheck(steps, target_language) ==
    IF IsEnglish(target_language) THEN steps
    ELSE LET gen_idx == FirstOf(GenerateIndexes(steps))
             sec_idx == FirstOf(SecurityIndexes(steps))
             at0 == IF sec_idx /= None THEN sec_idx ELSE Len(steps)
             insert_at == IF gen_idx /= None THEN Min2(at0, gen_idx + 1) ELSE at0
         IN  ListInsert(steps, insert_at, FinalTranslateStep(target_language))

RuleC_AppendAtEnd(steps, target_language) ==
    IF IsEnglish(target_language) THEN steps
    ELSE IF FinalTranslateIndexes(steps) /= {} THEN steps
    ELSE ListInsert(steps, Len(steps), FinalTranslateStep(target_language))

\* (C) that inserts the final translate at the generate step's index
RuleC_InsertAtGenerate(steps, target_language) ==
    IF IsEnglish(target_language) THEN steps
    ELSE IF FinalTranslateIndexes(steps) /= {} THEN steps
    ELSE LET gen_idx == FirstOf(GenerateIndexes(steps))
             sec_idx == FirstOf(SecurityIndexes(steps))
             at0 == IF sec_idx /= None THEN sec_idx ELSE Len(steps)
         IN  ListInsert(steps, IF gen_idx /= None THEN Min2(at0, gen_idx) ELSE at0,
                        FinalTranslateStep(target_language))

\* (C) that compares the target language as it is written
RuleC_CaseSensitive(steps, target_language) ==
    IF target_language \in {<<>>, S_en, S_english} THEN steps
    ELSE LET has_final_translate == FinalTranslateIndexes(steps) /= {}
         IN  IF has_final_translate THEN steps
             ELSE LET gen_idx == FirstOf(GenerateIndexes(steps))
                      sec_idx == FirstOf(SecurityIndexes(steps))
                      at0 == IF sec_idx /= None THEN sec_idx ELSE Len(steps)
                      insert_at == IF gen_idx /= None THEN Min2(at0, gen_idx + 1) ELSE at0
                  IN  ListInsert(steps, insert_at, FinalTranslateStep(target_language))

RuleC(steps, target_language) ==
    IF IsEnglish(target_language) THEN steps
    ELSE LET has_final_translate == FinalTranslateIndexes(steps) /= {}
         IN  IF has_final_translate THEN steps
             ELSE LET gen_idx == FirstOf(GenerateIndexes(steps))
                      sec_idx == FirstOf(SecurityIndexes(steps))
                      at0 == IF sec_idx /= None THEN sec_idx ELSE Len(steps)
                      insert_at == IF gen_idx /= None THEN Min2(at0, gen_idx + 1) ELSE at0
                  IN  ListInsert(steps, insert_at, FinalTranslateStep(target_language))

normalize_plan(p, text) ==
    [p EXCEPT !.steps = RuleC(RuleB(RuleA(p.steps), text, p.target_language),
                              p.target_language)]

(***************************************************************************)
(* tools/security.py: the regex pass and the hybrid filter                 *)
(***************************************************************************)
REDACTED == <<"[","R","E","D","A","C","T","E","D","]">>

\* the class [\s\.\-_] that _variant_pattern allows between two characters
Separators == Whitespace \cup {".", "-", "_"}

\* the number of consecutive separator characters of doc from position pos on
RECURSIVE SepRun(_, _)
SepRun(doc, pos) ==
    IF pos <= Len(doc) /\ doc[pos] \in Separators THEN 1 + SepRun(doc, pos + 1) ELSE 0

SetMax(S) == CHOOSE m \in S : \A x \in S : m >= x

\* The pattern of _variant_pattern(term), re.IGNORECASE, tried at position pos
\* (1-based) for the characters k.. of term: the position of the last character
\* matched, 0 when there is no match.  Each [\s\.\-_]* is greedy and backtracks.
RECURSIVE MatchRest(_, _, _, _)
MatchRest(doc, term, k, pos) ==
    IF pos > Len(doc) \/ LowerCh(doc[pos]) /= LowerCh(term[k]) THEN 0
    ELSE IF k = Len(term) THEN pos
    ELSE LET ok == {j \in 0..SepRun(doc, pos + 1) :
                        MatchRest(doc, term, k + 1, pos + 1 + j) /= 0}
         IN  IF ok = {} THEN 0 ELSE MatchRest(doc, term, k + 1, pos + 1 + SetMax(ok))

\* pattern.search(doc) is not None
PatternSearch(term, doc) == \E p \in 1..Len(doc) : MatchRest(doc, term, 1, p) /= 0

\* pattern.sub(repl, doc): leftmost non-overlapping matches, from position pos on
RECURSIVE PatternSubFrom(_, _, _, _)
PatternSubFrom(term, repl, doc, pos) ==
    IF pos > Len(doc) THEN <<>>
    ELSE LET e == MatchRest(doc, term, 1, pos)
         IN  IF e /= 0 THEN repl \o PatternSubFrom(term, repl, doc, e + 1)
             ELSE <<doc[pos]>> \o PatternSubFrom(term, repl, doc, pos + 1)

PatternSub(term, repl, doc) == PatternSubFrom(term, repl, doc, 1)

\* the loop of security_filter over terms[k..], with out and redacted so far
RECURSIVE SecurityFilterLoop(_, _, _, _)
SecurityFilterLoop(out, redacted, terms, k) ==
    IF k > Len(terms) THEN [doc |-> out, hits |-> redacted]
    ELSE LET term == terms[k]
         IN  IF Strip(term) = <<>> THEN SecurityFilterLoop(out, redacted, terms, k + 1)
             ELSE IF PatternSearch(Strip(term), out)
                  THEN SecurityFilterLoop(PatternSub(Strip(term), REDACTED, out),
                                          Append(redacted, term), terms, k + 1)
                  ELSE SecurityFilterLoop(out, redacted, terms, k + 1)

security_filter(document, terms) == SecurityFilterLoop(document, <<>>, terms, 1)

\* list(dict.fromkeys(l)): duplicates removed, first occurrence kept
RECURSIVE Dedupe(_)
Dedupe(l) ==
    IF l = <<>> THEN <<>>
    ELSE LET init == Dedupe(SubSeq(l, 1, Len(l) - 1))
             last == l[Len(l)]
         IN  IF \E i \in DOMAIN init : init[i] = last THEN init ELSE Append(init, last)

\* code-point order of the characters the model uses
AsciiOrder == <<"\t", "\n", " ", "!", "#", ",", "-", ".", "?">> \o UpperLetters
              \o <<"[", "]", "_">> \o LowerLetters

Ord(c) == CHOOSE i \in DOMAIN AsciiOrder : AsciiOrder[i] = c

\* a < b for str
RECURSIVE StrLess(_, _)
StrLess(a, b) ==
    IF b = <<>> THEN FALSE
    ELSE IF a = <<>> THEN TRUE
    ELSE IF Head(a) = Head(b) THEN StrLess(Tail(a), Tail(b))
    ELSE Ord(Head(a)) < Ord(Head(b))

\* sorted(S) for a set of str
RECURSIVE SortedSet(_)
SortedSet(S) ==
    IF S = {} THEN <<>>
    ELSE LET m == CHOOSE x \in S : \A y \in S \ {x} : StrLess(x, y)
         IN  <<m>> \o SortedSet(S \ {m})

SeqRange(l) == {l[i] : i \in DOMAIN l}

\* final_doc = llm_out or regex_out
FinalDoc_LlmOnly(llm_out, regex_out) == llm_out

FinalDoc(llm_out, regex_out) == IF llm_out /= <<>> THEN llm_out ELSE regex_out

\* An outcome of llm.redact: it raises, or returns (text, hits).
RedactRaises == [raised |-> TRUE, text |-> <<>>, hits |-> <<>>]

RedactReturns(text, hits) == [raised |-> FALSE, text |-> text, hits |-> hits]

\* hybrid_security_filter(document, sensitive_terms, llm=..., replacement=...,
\* enable_llm=...) where llm.redact has the outcome `redact`; the result is
\* the returned pair, or raised when the exception of llm.redact propagates.
hybrid_security_filter(document, terms, replacement, enable_llm, redact) ==
    LET pass1 == security_filter(document, terms)
        regex_out == pass1.doc
        regex_hits == pass1.hits
    IN  IF ~enable_llm
        THEN [raised |-> FALSE, doc |-> regex_out, hits |-> SortedSet(SeqRange(regex_hits))]
        ELSE IF redact.raised
             THEN [raised |-> TRUE, doc |-> <<>>, hits |-> <<>>]
             ELSE [raised |-> FALSE,
                   doc |-> FinalDoc(redact.text, regex_out),
                   hits |-> Dedupe(regex_hits \o redact.hits)]

(***************************************************************************)
(* Bounded inputs                                                          *)
(***************************************************************************)
MaxPlanLen == 3

MaxDocLen == 3

\* all sequences over S of length at most n
SeqsUpTo(S, n) == UNION {[1..k -> S] : k \in 0..n}

NoPlan == AgentPlan(<<>>, <<>>, <<>>)

\* target languages: English in several spellings, empty, and a non-English one
Languages == {S_en, <<"E","N">>, <<" ","e","n">>, <<"E","n","g","l","i","s","h">>,
              <<>>, <<"d","e">>}

\* internal document texts: empty, blank, non-blank
InternalDocs == {<<>>, <<" ">>, <<"a","b">>}

\* the steps a planner may emit, as far as normalize_plan tells them apart
PlannerSteps ==
    { ToolStep("get_company_info", EmptyDict),
      ToolStep("generate_document", [content_dict |-> EmptyDict]),
      ToolStep("security_filter", [document |-> <<"x">>]),
      ToolStep("translate_document", EmptyDict),
      ToolStep("translate_document", [source |-> S_internal]),
      ToolStep("translate_document", [source |-> S_final]),
      ToolStep("translate_document", [source |-> <<"F","I","N","A","L">>]) }

PlannerPlans ==
    {AgentPlan(<<"T">>, l, st) : l \in Languages, st \in SeqsUpTo(PlannerSteps, MaxPlanLen)}

\* documents and sensitive terms given to the filter
FilterChars == {"a", "B", "-"}

FilterDocs == SeqsUpTo(FilterChars, MaxDocLen)

FilterTermLists ==
    { <<>>,
      << <<"a","b">> >>,
      << <<"b">> >>,
      << <<" ">>, <<"a","b">> >>,
      << <<"b">>, <<"a","b">> >>,
      << <<"b">>, <<"a">> >>,
      << <<"a","b">>, <<"b">>, <<"a","b">> >> }

Replacements == {REDACTED, <<"#">>}

\* what llm.redact may return as text for the text it is given: nothing, the
\* text unchanged, the text with a span replaced, the text cut, another text
BackendRedactTexts(text, replacement) ==
    {<<>>, text, <<"z">>}
    \cup (IF text = <<>> THEN {} ELSE {replacement \o Tail(text), Tail(text)})

\* what llm.redact may return as matched terms
BackendRedactHits(terms) ==
    {<<>>, << <<"q">> >>} \cup {<<terms[i]>> : i \in DOMAIN terms}
    \cup {<<terms[i], terms[i]>> : i \in DOMAIN terms}

HfIdle ==
    [pc |-> "idle", document |-> <<>>, sensitive_terms |-> <<>>, replacement |-> REDACTED,
     enable_llm |-> TRUE, redact |-> RedactRaises,
     result |-> [raised |-> FALSE, doc |-> <<>>, hits |-> <<>>]]

(***************************************************************************)
(* llm/json_fix.py: fence stripping and extraction of the first JSON       *)
(* object                                                                  *)
(***************************************************************************)
\* the backquote character (a token: the lexer does not take the character
\* itself in a string)
Backquote == "bq"

Fence == <<Backquote, Backquote, Backquote>>

\* str.startswith / str.endswith
StartsWith(s, prefix) ==
    Len(prefix) <= Len(s) /\ SubSeq(s, 1, Len(prefix)) = prefix

EndsWith(s, suffix) ==
    Len(suffix) <= Len(s) /\ SubSeq(s, Len(s) - Len(suffix) + 1, Len(s)) = suffix

\* "\n".join(t.splitlines()[1:]) for a text with no trailing line break: the
\* text after the first line break, empty if there is none
AfterFirstLine(t) ==
    LET breaks == {i \in 1..Len(t) : t[i] = "\n"}
    IN  IF breaks = {} THEN <<>> ELSE SubSeq(t, SetMin(breaks) + 1, Len(t))

strip_markdown_fences(text) ==
    LET t == Strip(text)
        inner == Strip(AfterFirstLine(t))
    IN  IF ~StartsWith(t, Fence) THEN t
        ELSE IF EndsWith(inner, Fence)
             THEN Strip(SubSeq(inner, 1, Len(inner) - Len(Fence)))
             ELSE inner

\* what a json_fix function hands back: a text, or a ValueError with a message
JsonText(text) == [raised |-> FALSE, error |-> <<>>, text |-> text]

ValueError(message) == [raised |-> TRUE, error |-> <<message>>, text |-> <<>>]

\* the scan without the string-literal state: every brace counts
RECURSIVE ExtractScan_NoStrings(_, _, _, _, _)
ExtractScan_NoStrings(t, i, depth, in_str, esc) ==
    IF i > Len(t) THEN None
    ELSE IF t[i] = "{" THEN ExtractScan_NoStrings(t, i + 1, depth + 1, FALSE, FALSE)
    ELSE IF t[i] = "}"
         THEN IF depth - 1 = 0 THEN i ELSE ExtractScan_NoStrings(t, i + 1, depth - 1, FALSE, FALSE)
    ELSE ExtractScan_NoStrings(t, i + 1, depth, FALSE, FALSE)

\* the loop of extract_first_json_object from index i (1-based here) on, with
\* the loop's locals; the index of the closing brace, or None when the loop
\* runs off the end of the text
RECURSIVE ExtractScan(_, _, _, _, _)
ExtractScan(t, i, depth, in_str, esc) ==
    IF i > Len(t) THEN None
    ELSE IF in_str
         THEN IF esc THEN ExtractScan(t, i + 1, depth, TRUE, FALSE)
              ELSE IF t[i] = "\\" THEN ExtractScan(t, i + 1, depth, TRUE, TRUE)
              ELSE IF t[i] = "\"" THEN ExtractScan(t, i + 1, depth, FALSE, FALSE)
              ELSE ExtractScan(t, i + 1, depth, TRUE, FALSE)
         ELSE IF t[i] = "\"" THEN ExtractScan(t, i + 1, depth, TRUE, esc)
              ELSE IF t[i] = "{" THEN ExtractScan(t, i + 1, depth + 1, FALSE, esc)
              ELSE IF t[i] = "}"
                   THEN IF depth - 1 = 0 THEN i
                        ELSE ExtractScan(t, i + 1, depth - 1, FALSE, esc)
              ELSE ExtractScan(t, i + 1, depth, FALSE, esc)

\* t.find("{"), 1-based; None when there is none
FindOpen(t) == FirstOf({i \in 1..Len(t) : t[i] = "{"})

extract_first_json_object(text) ==
    IF text = <<>> THEN ValueError("Empty model output")
    ELSE LET t == Strip(text)
             start == FindOpen(t)
             end == ExtractScan(t, start, 0, FALSE, FALSE)
         IN  IF start = None THEN ValueError("No JSON object start '{' found in output")
             ELSE IF end = None THEN ValueError("Unclosed JSON object in output")
             ELSE JsonText(SubSeq(t, start, end))

coerce_to_json_text(raw) ==
    LET cleaned == strip_markdown_fences(raw)
        s == LStripChars(cleaned, Whitespace)
    IN  IF StartsWith(s, <<"{">>) /\ EndsWith(RStripChars(cleaned, Whitespace), <<"}">>)
        THEN JsonText(Strip(cleaned))
        ELSE extract_first_json_object(cleaned)

\* json.loads followed by schema.model_validate, for the texts the modelled
\* backend can produce: "{1}" and "{2}" stand for the JSON of two valid
\* plans, "{}" parses and fails validation, every other text fails to parse
Plan1 ==
    AgentPlan(<<"T">>, S_en, <<ToolStep("generate_document", [content_dict |-> EmptyDict])>>)

Plan2 ==
    AgentPlan(<<"T">>, <<"d","e">>, <<ToolStep("get_company_info", EmptyDict), SecurityStep>>)

Validated(obj) == [raised |-> FALSE, error |-> <<>>, obj |-> obj]

Invalid(message) == [raised |-> TRUE, error |-> <<message>>, obj |-> NoPlan]

LoadsAndValidate(json_text) ==
    IF json_text = <<"{","1","}">> THEN Validated(Plan1)
    ELSE IF json_text = <<"{","2","}">> THEN Validated(Plan2)
    ELSE IF json_text = <<"{","}">> THEN Invalid("ValidationError")
    ELSE Invalid("JSONDecodeError")

\* the body of the try block of one attempt: coerce, parse, validate
AttemptOutcome(raw) ==
    LET json_text == coerce_to_json_text(raw)
    IN  IF json_text.raised THEN [raised |-> TRUE, error |-> json_text.error, obj |-> NoPlan]
        ELSE LoadsAndValidate(json_text.text)

S_planner_instructions == <<"You are a careful planner ... JSON Schema: {schema}">>

\* f"{planner_instructions}\n\nUser request:\n{cur}"
AttemptPrompt(cur) == S_planner_instructions \o <<"\n\nUser request:\n">> \o cur

S_previous_invalid == "Your previous output was invalid.\nError: "

S_original_instruction ==
    "\nReturn ONLY corrected JSON that matches the schema. No markdown.\n\nOriginal instruction:\n"

\* a corrective text built on the current prompt text instead of the
\* original instruction
Corrective_Nested(error, text) ==
    <<S_previous_invalid>> \o error \o <<S_original_instruction>> \o pj.cur

\* the corrective text assigned to cur after a failed attempt
Corrective(error, text) ==
    <<S_previous_invalid>> \o error \o <<S_original_instruction>> \o text

\* a terminal error that drops the last error
TerminalError_NoCause(last_err) == <<"Failed to produce valid plan JSON. Last error: ">>

\* RuntimeError(f"Failed to produce valid plan JSON. Last error: {last_err}")
TerminalError(last_err) ==
    <<"Failed to produce valid plan JSON. Last error: ">>
    \o (IF last_err = <<>> THEN <<"None">> ELSE last_err)

\* the raw texts generate may return
ModelOutputs ==
    { <<>>,
      <<"x">>,
      <<"{">>,
      <<"{","}">>,
      <<"{","1","}">>,
      <<"x"," ","{","2","}"," ","y">>,
      Fence \o <<"\n","{","1","}","\n">> \o Fence,
      <<"{","1","}","{","2","}">> }

MaxRetries == 2

Retries == 0..MaxRetries

PjIdle ==
    [pc |-> "idle", instruction |-> <<>>, retries |-> 0, attempt |-> 0, cur |-> <<>>,
     last_err |-> <<>>, prompts |-> <<>>, raws |-> <<>>, errors |-> <<>>,
     raised |-> FALSE, error |-> <<>>, result |-> NoPlan]

CjIdle == [pc |-> "idle", raw |-> <<>>, coerced |-> JsonText(<<>>), extracted |-> JsonText(<<>>)]

(***************************************************************************)
(* SpecNormalize: normalize_plan applied to a plan, and to its result      *)
(***************************************************************************)
InitNormalize ==
    /\ pc = "n_input"
    /\ rawPlan \in PlannerPlans
    /\ internal_document_text \in InternalDocs
    /\ plan = NoPlan
    /\ renorm = NoPlan
    /\ instruction = <<>>
    /\ sensitive_terms = <<>>
    /\ enable_live_web = FALSE
    /\ idx = 0
    /\ runs = 1
    /\ ctx = EmptyDict
    /\ draft_document = <<>>
    /\ redactions = <<>>
    /\ trace = <<>>
    /\ final_doc = <<>>
    /\ hf = HfIdle
    /\ pj = PjIdle
    /\ cj = CjIdle

NormalizeOnce ==
    /\ pc = "n_input"
    /\ plan' = normalize_plan(rawPlan, internal_document_text)
    /\ pc' = "n_once"
    /\ UNCHANGED <<instruction, internal_document_text, sensitive_terms, enable_live_web, rawPlan, renorm,
                   idx, ctx, draft_document, redactions, trace, final_doc, hf, pj, cj,
                   runs>>

NormalizeAgain ==
    /\ pc = "n_once"
    /\ renorm' = normalize_plan(plan, internal_document_text)
    /\ pc' = "n_twice"
    /\ UNCHANGED <<instruction, internal_document_text, sensitive_terms, enable_live_web, rawPlan, plan,
                   idx, ctx, draft_document, redactions, trace, final_doc, hf, pj, cj,
                   runs>>

NextNormalize == NormalizeOnce \/ NormalizeAgain

SpecNormalize == InitNormalize /\ [][NextNormalize]_vars

(***************************************************************************)
(* SpecFilter: one call of hybrid_security_filter                          *)
(***************************************************************************)
InitFilter ==
    /\ pc = "filter"
    /\ hf \in {[HfIdle EXCEPT !.pc = "call", !.document = d, !.sensitive_terms = t,
                              !.replacement = r, !.enable_llm = e] :
                  d \in FilterDocs, t \in FilterTermLists, r \in Replacements,
                  e \in BOOLEAN}
    /\ rawPlan = NoPlan
    /\ plan = NoPlan
    /\ renorm = NoPlan
    /\ instruction = <<>>
    /\ internal_document_text = <<>>
    /\ sensitive_terms = <<>>
    /\ enable_live_web = FALSE
    /\ idx = 0
    /\ runs = 1
    /\ ctx = EmptyDict
    /\ draft_document = <<>>
    /\ redactions = <<>>
    /\ trace = <<>>
    /\ final_doc = <<>>
    /\ pj = PjIdle
    /\ cj = CjIdle

HfFinish(redact) ==
    LET r == hybrid_security_filter(hf.document, hf.sensitive_terms, hf.replacement,
                                    hf.enable_llm, redact)
    IN  /\ hf' = [hf EXCEPT !.pc = IF r.raised THEN "raised" ELSE "returned",
                            !.redact = redact, !.result = r]
        /\ UNCHANGED <<pc, instruction, internal_document_text, sensitive_terms, enable_live_web,
                       rawPlan, plan, renorm, idx, ctx, draft_document, redactions, trace, final_doc,
                       pj, cj, runs>>

\* enable_llm=False: llm.redact is not called
FilterRegexOnly ==
    /\ hf.pc = "call"
    /\ ~hf.enable_llm
    /\ HfFinish(RedactReturns(<<>>, <<>>))

\* llm.redact returns
FilterRedactReturns ==
    /\ hf.pc = "call"
    /\ hf.enable_llm
    /\ \E text \in BackendRedactTexts(security_filter(hf.document, hf.sensitive_terms).doc,
                                      hf.replacement),
          hits \in BackendRedactHits(hf.sensitive_terms) :
            HfFinish(RedactReturns(text, hits))

\* llm.redact raises
FilterRedactRaises ==
    /\ hf.pc = "call"
    /\ hf.enable_llm
    /\ HfFinish(RedactRaises)

NextFilter == FilterRegexOnly \/ FilterRedactReturns \/ FilterRedactRaises

SpecFilter == InitFilter /\ [][NextFilter]_vars

(***************************************************************************)
(* core/agent.py: the planner's fallback, and run()                        *)
(***************************************************************************)
\* str.split(): the maximal runs of non-whitespace characters
RECURSIVE Split(_)
Split(s) ==
    LET t == LStripChars(s, Whitespace)
    IN  IF t = <<>> THEN <<>>
        ELSE LET ends == {i \in 1..Len(t) : t[i] \in Whitespace}
                 n == IF ends = {} THEN Len(t) + 1 ELSE SetMin(ends)
             IN  <<SubSeq(t, 1, n - 1)>> \o Split(SubSeq(t, n, Len(t)))

Punctuation == {",", ".", "?", "!"}

S_UnknownCo == <<"U","n","k","n","o","w","n","C","o">>

\* tokens = [t.strip(",.?!") for t in instruction.split() if t.strip(",.?!")]
FallbackTokens(text) ==
    LET stripped == [i \in DOMAIN Split(text) |-> StripChars(Split(text)[i], Punctuation)]
    IN  SelectSeq(stripped, LAMBDA t : t /= <<>>)

\* a fallback plan without the internal translate step
_fallback_plan_NoInternal(text) ==
    AgentPlan(S_UnknownCo, S_en,
              << ToolStep("get_company_info", [company_name |-> S_UnknownCo]),
                 ToolStep("mock_web_search", [company_name |-> S_UnknownCo]),
                 ToolStep("generate_document", [content_dict |-> EmptyDict]),
                 FinalTranslateStep(S_en),
                 SecurityStep >>)

\* a fallback plan that translates the internal document after generating
_fallback_plan_TranslateLate(text) ==
    LET tokens == FallbackTokens(text)
        company_name == IF tokens /= <<>> THEN tokens[Len(tokens)] ELSE S_UnknownCo
    IN  AgentPlan(company_name, S_en,
                  << ToolStep("get_company_info", [company_name |-> company_name]),
                     ToolStep("mock_web_search", [company_name |-> company_name]),
                     ToolStep("generate_document", [content_dict |-> EmptyDict]),
                     InternalTranslateStep(S_en),
                     FinalTranslateStep(S_en),
                     SecurityStep >>)

_fallback_plan(text) ==
    LET tokens == FallbackTokens(text)
        company_name == IF tokens /= <<>> THEN tokens[Len(tokens)] ELSE S_UnknownCo
    IN  AgentPlan(company_name, S_en,
                  << ToolStep("get_company_info", [company_name |-> company_name]),
                     ToolStep("mock_web_search", [company_name |-> company_name]),
                     InternalTranslateStep(S_en),
                     ToolStep("generate_document", [content_dict |-> EmptyDict]),
                     FinalTranslateStep(S_en),
                     SecurityStep >>)

\* An outcome of llm.plan followed by the AgentPlan validation: a plan, or an
\* exception.
PlanRaises == [raised |-> TRUE, plan |-> NoPlan]

PlanReturns(p) == [raised |-> FALSE, plan |-> p]

\* plan() without the except branch
PlannerPlan_NoFallback(text, outcome) == outcome.plan

\* plan(instruction), where the backend has outcome `outcome`
PlannerPlan(text, outcome) ==
    IF outcome.raised THEN _fallback_plan(text)
    ELSE AgentPlan(outcome.plan.company_name, outcome.plan.target_language, outcome.plan.steps)

ToolRegistry == {"get_company_info", "mock_web_search", "translate_document",
                 "generate_document", "security_filter"}

PreviewLen == 400

\* _preview(x, n) for x a str
_preview(text, n) ==
    IF Len(text) <= n THEN text ELSE SubSeq(text, 1, n) \o <<".", ".", ".">>

\* str(x) of a tool output that is not a str, reduced to the texts it holds
StrOfDict(d) == <<"{">> \o d \o <<"}">>

StrOfPair(doc, hits) == <<"(">> \o doc \o <<",">> \o <<"[">> \o <<"]">> \o <<")">>

TraceEvent(event_type, payload) == [event_type |-> event_type, payload |-> payload]

ToolCallEvent(step, tool, args) ==
    TraceEvent("tool_call", [step |-> step, tool |-> tool, args |-> args])

ToolResultEvent(step, tool, preview) ==
    TraceEvent("tool_result", [step |-> step, tool |-> tool, output_preview |-> preview])

ToolErrorEvent(step, tool, error) ==
    TraceEvent("tool_error", [step |-> step, tool |-> tool, error |-> error])

\* the text of an exception raised inside a tool
ToolFailure == "tool raised"

\* a or b, for str
Or(a, b) == IF a /= <<>> THEN a ELSE b

\* a | b, for dict
DictUnion(a, b) ==
    [k \in (DOMAIN a) \cup (DOMAIN b) |-> IF k \in DOMAIN b THEN b[k] ELSE a[k]]

\* the record get_company_info returns for a company
CompanyRecord(company_name) ==
    [name |-> company_name, industry |-> <<"U">>, risk_category |-> <<"u">>]

\* the record mock_web_search returns
WebRecord(company_name, combined_text) ==
    [company |-> company_name, combined_text |-> combined_text]

\* the texts the crawl can yield: none unless enable_live
WebTexts(enable_live) == IF enable_live THEN {<<>>, <<"w">>} ELSE {<<>>}

\* what llm.translate / llm.generate_text may return for a document
BackendTexts(document) == {<<>>, document, <<"t","B">>}

\* what llm.summarize may return
SummaryTexts == {<<"s">>}

\* what the template may render to
RenderTexts == {<<>>, <<"a","-","B">>}

\* what llm.redact may return inside a run
RunRedactTexts(text) == {<<>>, text, <<"z">>}

RunRedactHits == {<<>>, << <<"q">> >>}

Instructions == {<<>>, <<"o","n"," ","T","c","."," ","7","!">>}

RunDocs == {<<>>, <<"a","b">>}

RunTermLists == {<<>>, << <<"a","b">> >>}

MaxRunPlanLen == 2

RunSteps ==
    { ToolStep("get_company_info", EmptyDict),
      ToolStep("mock_web_search", EmptyDict),
      ToolStep("generate_document", [content_dict |-> EmptyDict]),
      ToolStep("translate_document", [document |-> <<"d">>]),
      ToolStep("translate_document", [source |-> <<"F","i","n","a","l">>, document |-> <<"d">>]),
      ToolStep("no_such_tool", EmptyDict) }

RunLanguages == {S_en, <<"d","e">>}

BackendPlans ==
    {AgentPlan(<<"T">>, l, st) : l \in RunLanguages, st \in SeqsUpTo(RunSteps, MaxRunPlanLen)}

Init ==
    /\ pc = "start"
    /\ instruction \in Instructions
    /\ internal_document_text \in RunDocs
    /\ sensitive_terms \in RunTermLists
    /\ enable_live_web \in BOOLEAN
    /\ rawPlan = NoPlan
    /\ plan = NoPlan
    /\ renorm = NoPlan
    /\ idx = 0
    /\ runs = 1
    /\ ctx = EmptyDict
    /\ draft_document = <<>>
    /\ redactions = <<>>
    /\ trace = <<>>
    /\ final_doc = <<>>
    /\ hf = HfIdle
    /\ pj = PjIdle
    /\ cj = CjIdle

Config == <<instruction, internal_document_text, sensitive_terms, enable_live_web, renorm, hf,
            pj, cj, runs>>

\* a context that keeps what an earlier run wrote
InitialContext_Shared(p, text) ==
    DictUnion(ctx, [company_name |-> p.company_name,
                    target_language |-> p.target_language,
                    internal_document_text |-> text,
                    translated_internal_doc |-> <<>>])

\* the ctx dict run() creates for the normalized plan
InitialContext(p, text) ==
    [company_name |-> p.company_name,
     target_language |-> p.target_language,
     internal_document_text |-> text,
     translated_internal_doc |-> <<>>]

\* run(), up to the loop: start, plan(), raw_plan, normalize_plan, plan, ctx,
\* for a backend whose plan() raises or returns one of the plans
RunBeginWith(plans) ==
    /\ pc = "start"
    /\ \E outcome \in {PlanRaises} \cup {PlanReturns(p) : p \in plans} :
         LET raw == PlannerPlan(instruction, outcome)
             norm == normalize_plan(raw, internal_document_text)
         IN  /\ rawPlan' = raw
             /\ plan' = norm
             /\ trace' = << TraceEvent("start", [instruction |-> instruction]),
                            TraceEvent("raw_plan", [plan |-> raw]),
                            TraceEvent("plan", [plan |-> norm]) >>
             /\ ctx' = InitialContext(norm, internal_document_text)
    /\ draft_document' = <<>>
    /\ redactions' = <<>>
    /\ idx' = 0
    /\ pc' = "loop"
    /\ UNCHANGED <<Config, final_doc>>

RunBegin == RunBeginWith(BackendPlans)

InLoop == pc = "loop" /\ idx < Len(plan.steps)

CurStep == plan.steps[idx + 1]

\* an iteration that puts its events in front of the trace
NextStep_Prepend(events) ==
    /\ trace' = events \o trace
    /\ idx' = idx + 1
    /\ UNCHANGED <<pc, Config, rawPlan, plan, final_doc>>

\* the end of an iteration that appended events and left the documents alone
NextStep(events) ==
    /\ trace' = trace \o events
    /\ idx' = idx + 1
    /\ UNCHANGED <<pc, Config, rawPlan, plan, final_doc>>

\* an except branch that also resets the draft document
ExceptHandler_ClearsDraft(events, error) ==
    /\ NextStep(events \o <<ToolErrorEvent(idx, CurStep.tool, error)>>)
    /\ draft_document' = <<>>
    /\ UNCHANGED <<ctx, redactions>>

\* except Exception as e: the tool_error event after the events recorded so
\* far; no assignment of the try block has been executed
ExceptHandler(events, error) ==
    /\ NextStep(events \o <<ToolErrorEvent(idx, CurStep.tool, error)>>)
    /\ UNCHANGED <<ctx, draft_document, redactions>>

\* tool is None: tool_error "Tool not found", continue
StepToolNotFound ==
    /\ InLoop
    /\ CurStep.tool \notin ToolRegistry
    /\ NextStep(<<ToolErrorEvent(idx, CurStep.tool, "Tool not found")>>)
    /\ UNCHANGED <<ctx, draft_document, redactions>>

StepGetCompanyInfo ==
    /\ InLoop
    /\ CurStep.tool = "get_company_info"
    /\ LET args == SetDefault(CurStep.args, "company_name", ctx["company_name"])
           call == ToolCallEvent(idx, CurStep.tool, args)
       IN  \/ \* the tool returns
              LET out == CompanyRecord(args["company_name"])
              IN  /\ NextStep(<<call, ToolResultEvent(idx, CurStep.tool,
                                     _preview(StrOfDict(out.name), PreviewLen))>>)
                  /\ ctx' = Put(ctx, "company_info", out)
           \/ \* the tool raises
              ExceptHandler(<<call>>, ToolFailure)
    /\ UNCHANGED <<draft_document, redactions>>

StepMockWebSearch ==
    /\ InLoop
    /\ CurStep.tool = "mock_web_search"
    /\ LET args == SetDefault(CurStep.args, "company_name", ctx["company_name"])
           call == ToolCallEvent(idx, CurStep.tool, args)
       IN  \/ \E text \in WebTexts(enable_live_web) :
                LET out == WebRecord(args["company_name"], text)
                IN  /\ NextStep(<<call, ToolResultEvent(idx, CurStep.tool,
                                       _preview(StrOfDict(out.combined_text), PreviewLen))>>)
                    /\ ctx' = Put(ctx, "web_findings", out)
           \/ ExceptHandler(<<call>>, ToolFailure)
    /\ UNCHANGED <<draft_document, redactions>>

\* source = (args.get("source") or "internal").lower().strip()
EngineSource(args) == Strip(Lower(Or(Get(args, "source", <<>>), S_internal)))

\* arguments that keep a document the step declares
TranslateArgs_Declared(args) ==
    LET source == EngineSource(args)
        document == IF source = S_final THEN Or(draft_document, <<>>)
                    ELSE Or(Get(ctx, "internal_document_text", <<>>), <<>>)
        a1 == SetDefault(SetDefault(args, "document", document), "mode",
                         IF source = S_final THEN S_briefing ELSE S_plain)
    IN  Put(Put(a1, "target_language", Get(ctx, "target_language", S_en)), "source", source)

\* the arguments the engine passes to translate_document
TranslateArgs(args) ==
    LET source == EngineSource(args)
        a1 == IF source = S_final
              THEN SetDefault(Put(args, "document", Or(draft_document, <<>>)),
                              "mode", S_briefing)
              ELSE SetDefault(Put(args, "document",
                                  Or(Get(ctx, "internal_document_text", <<>>), <<>>)),
                              "mode", S_plain)
    IN  Put(Put(a1, "target_language", Get(ctx, "target_language", S_en)), "source", source)

\* a translate result that is written to both slots
TranslateResult_Both(args, out) ==
    [draft_document |-> Or(out, <<>>),
     ctx |-> Put(Put(ctx, "draft_document", Or(out, <<>>)), "translated_internal_doc",
                 Or(out, <<>>))]

\* what a successful translate step leaves in draft_document and ctx
TranslateResult(args, out) ==
    IF EngineSource(args) = S_final
    THEN [draft_document |-> Or(out, <<>>), ctx |-> Put(ctx, "draft_document", Or(out, <<>>))]
    ELSE [draft_document |-> draft_document,
          ctx |-> Put(ctx, "translated_internal_doc", Or(out, <<>>))]

\* the texts translate_document can return for its arguments: "" for a blank
\* document, else what llm.generate_text (briefing mode) or llm.translate returns
TranslateOutputs(args) ==
    IF ~NonBlank(args["document"]) THEN {<<>>} ELSE BackendTexts(args["document"])

StepTranslate ==
    /\ InLoop
    /\ CurStep.tool = "translate_document"
    /\ LET args == TranslateArgs(CurStep.args)
           call == ToolCallEvent(idx, CurStep.tool, args)
       IN  \/ \E out \in TranslateOutputs(args) :
                /\ NextStep(<<call, ToolResultEvent(idx, CurStep.tool,
                                                    _preview(out, PreviewLen))>>)
                /\ draft_document' = TranslateResult(args, out).draft_document
                /\ ctx' = TranslateResult(args, out).ctx
           \/ \* the backend raises inside the tool
              /\ NonBlank(args["document"])
              /\ ExceptHandler(<<call>>, ToolFailure)
    /\ UNCHANGED redactions

\* the llm.summarize calls _build_content_dict makes: one for a non-empty
\* translated internal document, one for a non-empty web text
SummarizeCalls ==
    (IF Or(Get(ctx, "translated_internal_doc", <<>>), <<>>) /= <<>> THEN {"internal"} ELSE {})
    \cup (IF Or(Get(Get(ctx, "web_findings", EmptyDict), "combined_text", <<>>), <<>>) /= <<>>
          THEN {"web"} ELSE {})

S_NoInternal == <<"(","N","o"," ","i","n","t","e","r","n","a","l",")">>

S_NoWeb == <<"(","N","o"," ","w","e","b",")">>

\* _build_content_dict(ctx), given what llm.summarize returned
_build_content_dict(internal_summary, web_summary) ==
    LET info == Get(ctx, "company_info", EmptyDict)
    IN  [company_name |-> Get(ctx, "company_name", S_UnknownCo),
         industry |-> Get(info, "industry", <<"U">>),
         web_summary |-> IF "web" \in SummarizeCalls THEN web_summary ELSE S_NoWeb,
         internal_doc_summary |->
             IF "internal" \in SummarizeCalls THEN internal_summary ELSE S_NoInternal,
         risk_category |-> Get(info, "risk_category", <<"u">>)]

\* the arguments the engine passes to generate_document
GenerateArgs(args, built_cd) ==
    LET planned_cd == Get(args, "content_dict", EmptyDict)
        merged_cd == DictUnion(built_cd, planned_cd)
        lang == Get(ctx, "target_language", S_en)
    IN  [content_dict |-> SetDefault(SetDefault(merged_cd, "target_language", lang),
                                     "language", lang)]

\* llm.summarize raises inside _build_content_dict: the call is made before the
\* try block, so the exception leaves the loop and run()
StepGenerateSummarizeRaises ==
    /\ InLoop
    /\ CurStep.tool = "generate_document"
    /\ SummarizeCalls /= {}
    /\ pc' = "raised"
    /\ UNCHANGED <<Config, rawPlan, plan, idx, ctx, draft_document, redactions, trace,
                   final_doc>>

\* a generate_document step whose template renders to one of the texts
StepGenerateWith(texts) ==
    /\ InLoop
    /\ CurStep.tool = "generate_document"
    /\ \E s1 \in SummaryTexts, s2 \in SummaryTexts :
         LET args == GenerateArgs(CurStep.args, _build_content_dict(s1, s2))
             call == ToolCallEvent(idx, CurStep.tool, args)
         IN  \/ \E out \in texts :
                  /\ NextStep(<<call, ToolResultEvent(idx, CurStep.tool,
                                                      _preview(out, PreviewLen))>>)
                  /\ draft_document' = Or(out, <<>>)
                  /\ ctx' = Put(ctx, "draft_document", Or(out, <<>>))
             \/ ExceptHandler(<<call>>, ToolFailure)
    /\ UNCHANGED redactions

StepGenerate == StepGenerateWith(RenderTexts)

\* arguments that keep the document the step declares
SecurityArgs_Declared(args) == SetDefault(args, "document", Or(draft_document, <<>>))

\* args["document"] = draft_document or ""
SecurityArgs(args) == Put(args, "document", Or(draft_document, <<>>))

StepSecurityFilter ==
    /\ InLoop
    /\ CurStep.tool = "security_filter"
    /\ LET args == SecurityArgs(CurStep.args)
           call == ToolCallEvent(idx, CurStep.tool, args)
           regex_out == security_filter(args["document"], sensitive_terms).doc
       IN  \E redact \in {RedactRaises}
                         \cup {RedactReturns(t, h) : t \in RunRedactTexts(regex_out),
                                                     h \in RunRedactHits} :
             LET out == hybrid_security_filter(args["document"], sensitive_terms,
                                               REDACTED, TRUE, redact)
             IN  IF out.raised
                 THEN ExceptHandler(<<call>>, ToolFailure)
                 ELSE /\ NextStep(<<call, ToolResultEvent(idx, CurStep.tool,
                                         _preview(StrOfPair(out.doc, out.hits), PreviewLen))>>)
                      /\ draft_document' = out.doc
                      /\ redactions' = out.hits
                      /\ ctx' = Put(Put(ctx, "final_document", out.doc),
                                    "redactions", out.hits)

\* a final document that ignores the draft when no redact step recorded one
FinalDocument_RecordedOnly(c, draft) == Get(c, "final_document", <<>>)

\* final_doc = ctx.get("final_document", draft_document)
FinalDocument(c, draft) == Get(c, "final_document", draft)

\* after the loop: final_doc, the end event, the result
RunEnd ==
    /\ pc = "loop"
    /\ idx = Len(plan.steps)
    /\ LET doc == FinalDocument(ctx, draft_document)
       IN  /\ final_doc' = doc
           /\ trace' = Append(trace, TraceEvent("end", [redactions |-> redactions,
                                                        final_len |-> Len(doc)]))
    /\ pc' = "returned"
    /\ UNCHANGED <<Config, rawPlan, plan, idx, ctx, draft_document, redactions>>

MaxRuns == 2

\* run() is called again on the same agent, with new arguments.  The values
\* the last call left in ctx, draft_document and redactions are kept as they
\* are until the new call assigns them; final_doc is the document of the last
\* result, which the caller still holds.
RunAgain ==
    /\ pc \in {"returned", "raised"}
    /\ runs < MaxRuns
    /\ runs' = runs + 1
    /\ pc' = "start"
    /\ instruction' \in Instructions
    /\ internal_document_text' \in RunDocs
    /\ rawPlan' = NoPlan
    /\ plan' = NoPlan
    /\ idx' = 0
    /\ trace' = <<>>
    /\ UNCHANGED <<sensitive_terms, enable_live_web, renorm, hf, pj, cj, ctx, draft_document,
                   redactions, final_doc>>

Next ==
    \/ RunBegin
    \/ StepToolNotFound
    \/ StepGetCompanyInfo
    \/ StepMockWebSearch
    \/ StepTranslate
    \/ StepGenerateSummarizeRaises
    \/ StepGenerate
    \/ StepSecurityFilter
    \/ RunEnd

Spec == Init /\ [][Next]_vars

(***************************************************************************)
(* SpecRerun: two successive runs on the same agent                        *)
(***************************************************************************)
\* the plans the backend returns in SpecRerun
RerunPlans ==
    { AgentPlan(<<"T">>, <<"d","e">>,
                <<ToolStep("get_company_info", EmptyDict),
                  ToolStep("mock_web_search", EmptyDict)>>),
      AgentPlan(<<"V">>, S_en,
                <<ToolStep("no_such_tool", EmptyDict),
                  ToolStep("generate_document", [content_dict |-> EmptyDict])>>),
      AgentPlan(<<"T">>, <<"d","e">>,
                <<ToolStep("translate_document", [document |-> <<"d">>]),
                  ToolStep("generate_document", [content_dict |-> EmptyDict])>>) }

RerunBegin == RunBeginWith(RerunPlans)

NextRerun ==
    \/ RunAgain
    \/ RerunBegin
    \/ StepToolNotFound
    \/ StepGetCompanyInfo
    \/ StepMockWebSearch
    \/ StepTranslate
    \/ StepGenerateSummarizeRaises
    \/ StepGenerate
    \/ StepSecurityFilter
    \/ RunEnd

SpecRerun == Init /\ [][NextRerun]_vars

(***************************************************************************)
(* SpecPreview: runs whose rendered document is as long as the preview     *)
(* bound, and up to MaxOver characters longer                              *)
(***************************************************************************)
MaxOver == 3

\* the texts the template may render to: one of every length up to
\* PreviewLen + MaxOver
LongTexts == {[i \in 1..n |-> "a"] : n \in 0..(PreviewLen + MaxOver)}

PreviewPlans ==
    {AgentPlan(<<"T">>, S_en, <<ToolStep("generate_document", [content_dict |-> EmptyDict])>>)}

InitPreview ==
    /\ pc = "start"
    /\ instruction = <<>>
    /\ internal_document_text = <<>>
    /\ sensitive_terms = <<>>
    /\ enable_live_web = FALSE
    /\ rawPlan = NoPlan
    /\ plan = NoPlan
    /\ renorm = NoPlan
    /\ idx = 0
    /\ runs = 1
    /\ ctx = EmptyDict
    /\ draft_document = <<>>
    /\ redactions = <<>>
    /\ trace = <<>>
    /\ final_doc = <<>>
    /\ hf = HfIdle
    /\ pj = PjIdle
    /\ cj = CjIdle

PreviewBegin == RunBeginWith(PreviewPlans)

StepGenerateLong == StepGenerateWith(LongTexts)

\* run() for these inputs: the plans have no unknown tool, and without an
\* internal document or web text _build_content_dict calls no backend
NextPreview ==
    \/ PreviewBegin
    \/ StepGetCompanyInfo
    \/ StepMockWebSearch
    \/ StepTranslate
    \/ StepGenerateLong
    \/ StepSecurityFilter
    \/ RunEnd

SpecPreview == InitPreview /\ [][NextPreview]_vars

(***************************************************************************)
(* SpecExtract: coerce_to_json_text and extract_first_json_object applied  *)
(* to a raw text                                                           *)
(***************************************************************************)
JsonChars == {"{", "}", "\"", "\\", "x", " "}

MaxRawLen == 5

\* raw model outputs: every short text over JsonChars, and some longer ones
\* with code fences, prose, a second object, an escaped quote
ExtractTexts ==
    SeqsUpTo(JsonChars, MaxRawLen)
    \cup { Fence \o <<"\n","{","x","}","\n">> \o Fence,
           Fence \o <<"j","s","o","n","\n","{","x","}","\n">> \o Fence,
           Fence \o <<"\n","x"," ","{","x","}"," ","x","\n">> \o Fence,
           Fence \o <<"{","x","}">> \o Fence,
           <<"{","x","}"," ","x"," ","{","x","}">>,
           <<"x"," ","{","\"","\\","\"","}","\"","}"," ","x">>,
           <<"{","\"","\\","\"","}","\"","}","{","}">> }

InitExtract ==
    /\ pc = "extract"
    /\ cj \in {[CjIdle EXCEPT !.pc = "call", !.raw = r] : r \in ExtractTexts}
    /\ pj = PjIdle
    /\ hf = HfIdle
    /\ rawPlan = NoPlan
    /\ plan = NoPlan
    /\ renorm = NoPlan
    /\ instruction = <<>>
    /\ internal_document_text = <<>>
    /\ sensitive_terms = <<>>
    /\ enable_live_web = FALSE
    /\ idx = 0
    /\ runs = 1
    /\ ctx = EmptyDict
    /\ draft_document = <<>>
    /\ redactions = <<>>
    /\ trace = <<>>
    /\ final_doc = <<>>

CjFinish(coerced, extracted) ==
    /\ cj' = [cj EXCEPT !.pc = "done", !.coerced = coerced, !.extracted = extracted]
    /\ UNCHANGED <<pc, instruction, internal_document_text, sensitive_terms, enable_live_web,
                   rawPlan, plan, renorm, idx, ctx, draft_document, redactions, trace, final_doc,
                   hf, pj, runs>>

\* both functions hand back a text
JsonFixReturns ==
    /\ cj.pc = "call"
    /\ ~coerce_to_json_text(cj.raw).raised
    /\ CjFinish(coerce_to_json_text(cj.raw), extract_first_json_object(cj.raw))

\* coerce_to_json_text raises ValueError
JsonFixRaises ==
    /\ cj.pc = "call"
    /\ coerce_to_json_text(cj.raw).raised
    /\ CjFinish(coerce_to_json_text(cj.raw), extract_first_json_object(cj.raw))

NextExtract == JsonFixReturns \/ JsonFixRaises

SpecExtract == InitExtract /\ [][NextExtract]_vars

(***************************************************************************)
(* SpecPlan: plan(instruction) over a backend whose plan() is              *)
(* plan_with_json_retries                                                  *)
(***************************************************************************)
S_planner_instruction == <<"Plan tool calls for a research assistant ...">>

\* f"{planner_instruction}\n\nUser request: {instruction}"
FullPrompt(text) == S_planner_instruction \o <<"\n\nUser request: ">> \o text

InitPlan ==
    /\ pc = "plan"
    /\ instruction \in Instructions
    /\ pj \in {[PjIdle EXCEPT !.retries = r] : r \in Retries}
    /\ cj = CjIdle
    /\ hf = HfIdle
    /\ rawPlan = NoPlan
    /\ plan = NoPlan
    /\ renorm = NoPlan
    /\ internal_document_text = <<>>
    /\ sensitive_terms = <<>>
    /\ enable_live_web = FALSE
    /\ idx = 0
    /\ runs = 1
    /\ ctx = EmptyDict
    /\ draft_document = <<>>
    /\ redactions = <<>>
    /\ trace = <<>>
    /\ final_doc = <<>>

PlanFrame ==
    <<internal_document_text, sensitive_terms, enable_live_web, plan, renorm, idx, ctx,
      draft_document, redactions, trace, final_doc, hf, cj, runs>>

\* plan(): full_prompt is built and llm.plan is called with it;
\* plan_with_json_retries starts with last_err = None and cur = instruction
PlanCallsBackend ==
    /\ pc = "plan"
    /\ pj.pc = "idle"
    /\ pj' = [pj EXCEPT !.pc = "loop", !.instruction = FullPrompt(instruction),
                        !.cur = FullPrompt(instruction)]
    /\ UNCHANGED <<pc, instruction, rawPlan, PlanFrame>>

\* one iteration of the loop in which generate returns a raw text
PjAttempt ==
    /\ pj.pc = "loop"
    /\ pj.attempt < pj.retries + 1
    /\ \E raw \in ModelOutputs :
         LET out == AttemptOutcome(raw)
             sent == [pj EXCEPT !.attempt = @ + 1,
                                !.prompts = Append(@, AttemptPrompt(pj.cur)),
                                !.raws = Append(@, raw)]
         IN  pj' = IF out.raised
                   THEN [sent EXCEPT !.last_err = out.error,
                                     !.errors = Append(@, out.error),
                                     !.cur = Corrective(out.error, pj.instruction)]
                   ELSE [sent EXCEPT !.pc = "returned", !.result = out.obj]
    /\ UNCHANGED <<pc, instruction, rawPlan, PlanFrame>>

\* a loop that treats an exception of generate as one more failed attempt
GenerateRaised_Retried(p) ==
    [p EXCEPT !.attempt = @ + 1,
              !.prompts = Append(@, AttemptPrompt(p.cur)),
              !.last_err = <<"generate raised">>,
              !.cur = Corrective(<<"generate raised">>, p.instruction)]

\* the loop's state after generate_text raised: the call was made with the
\* current prompt, and its exception is the exception of the whole function
GenerateRaised(p) ==
    [p EXCEPT !.attempt = @ + 1,
              !.prompts = Append(@, AttemptPrompt(p.cur)),
              !.pc = "raised", !.raised = TRUE, !.error = <<"generate raised">>]

\* generate raises (a transport error): the call is outside the try block, so
\* the exception leaves plan_with_json_retries as it is
PjGenerateRaises ==
    /\ pj.pc = "loop"
    /\ pj.attempt < pj.retries + 1
    /\ pj' = GenerateRaised(pj)
    /\ UNCHANGED <<pc, instruction, rawPlan, PlanFrame>>

\* the loop is over without a return: the terminal RuntimeError
PjExhausted ==
    /\ pj.pc = "loop"
    /\ pj.attempt = pj.retries + 1
    /\ pj' = [pj EXCEPT !.pc = "raised", !.raised = TRUE, !.error = TerminalError(pj.last_err)]
    /\ UNCHANGED <<pc, instruction, rawPlan, PlanFrame>>

\* plan(): llm.plan returned or raised; the plan or the fallback plan
PlanFinishes ==
    /\ pc = "plan"
    /\ pj.pc \in {"returned", "raised"}
    /\ rawPlan' = PlannerPlan(instruction,
                              IF pj.raised THEN PlanRaises ELSE PlanReturns(pj.result))
    /\ pc' = "planned"
    /\ UNCHANGED <<instruction, pj, PlanFrame>>

NextPlan == PlanCallsBackend \/ PjAttempt \/ PjGenerateRaises \/ PjExhausted \/ PlanFinishes

SpecPlan == InitPlan /\ [][NextPlan]_vars

(***************************************************************************)
(* Properties of normalize_plan (under SpecNormalize)                      *)
(***************************************************************************)
Normalized == pc \in {"n_once", "n_twice"}

\* C3: for every input plan, internal document text and target language, the
\* plan returned by normalize_plan contains exactly one security_filter step
\* and it is the last step.
C3_ExactlyOneSecurityFilterLast ==
    Normalized => SecurityIndexes(plan.steps) = {Len(plan.steps) - 1}

\* a plan with several security_filter steps, none of them last, has been
\* normalized under rules (B) and (C) as well
C3_Witness ==
    /\ pc = "n_once"
    /\ Cardinality(SecurityIndexes(rawPlan.steps)) >= 2
    /\ ~IsSecurity(rawPlan.steps[Len(rawPlan.steps)])
    /\ NonBlank(internal_document_text)
    /\ ~IsEnglish(rawPlan.target_language)

\* C4: normalize_plan is idempotent: normalizing normalize_plan(P, D) again
\* with the same D yields an equal plan (company, language, steps and their
\* arguments).
C4_Idempotent == pc = "n_twice" => renorm = plan

\* the first normalization inserted both translate steps and the filter step
C4_Witness ==
    /\ pc = "n_twice"
    /\ NonBlank(internal_document_text)
    /\ ~IsEnglish(rawPlan.target_language)
    /\ Len(plan.steps) = Len(rawPlan.steps) + 3

\* C5 as stated: if D is non-blank and the normalized plan contains
\* generate_document at index g, every translate_document step whose source
\* is not "final" is at an index less than g, and at least one exists.
C5_EveryNonFinalTranslateBeforeGenerate ==
    (Normalized /\ NonBlank(internal_document_text)) =>
        \A g \in GenerateIndexes(plan.steps) :
            /\ \A i \in NonFinalTranslateIndexes(plan.steps) : i < g
            /\ NonFinalTranslateIndexes(plan.steps) /= {}

\* C5 as amended: if D is non-blank and the normalized plan contains
\* generate_document at index g, at least one translate_document step whose
\* source is not "final" is at an index less than g.
C5_SomeNonFinalTranslateBeforeGenerate ==
    (Normalized /\ NonBlank(internal_document_text)) =>
        \A g \in GenerateIndexes(plan.steps) :
            \E i \in NonFinalTranslateIndexes(plan.steps) : i < g

\* the input plan had its first non-final translate after generate_document
C5_Witness ==
    /\ pc = "n_once"
    /\ NonBlank(internal_document_text)
    /\ FirstOf(GenerateIndexes(rawPlan.steps)) /= None
    /\ FirstOf(NonFinalTranslateIndexes(rawPlan.steps))
         > FirstOf(GenerateIndexes(rawPlan.steps))

Pass1 == security_filter(hf.document, hf.sensitive_terms)

\* C2 as stated: when llm.redact raises, hybrid_security_filter still returns,
\* its document the Pass-1 output and its matched terms the Pass-1 hits.
C2_RedactFailureFallsBackToPass1 ==
    (hf.pc \in {"returned", "raised"} /\ hf.enable_llm /\ hf.redact.raised) =>
        /\ hf.pc = "returned"
        /\ hf.result.doc = Pass1.doc
        /\ hf.result.hits = Pass1.hits

\* C9: if Pass 2 returns an empty document while the Pass-1 output is
\* non-empty, the returned document equals the Pass-1 output and is not empty.
C9_EmptyPass2FallsBackToPass1 ==
    (/\ hf.pc \in {"returned", "raised"}
     /\ hf.enable_llm
     /\ ~hf.redact.raised
     /\ hf.redact.text = <<>>
     /\ Pass1.doc /= <<>>) =>
        /\ hf.pc = "returned"
        /\ hf.result.doc = Pass1.doc
        /\ hf.result.doc /= <<>>

\* Pass 2 returned an empty text after Pass 1 had redacted something
C9_Witness ==
    /\ hf.pc = "returned"
    /\ hf.enable_llm
    /\ ~hf.redact.raised
    /\ hf.redact.text = <<>>
    /\ Pass1.hits /= <<>>
    /\ Pass1.doc /= hf.document

\* out is base with some non-empty spans replaced by token, nothing else changed
RECURSIVE OnlyRedacts(_, _, _)
OnlyRedacts(base, out, token) ==
    \/ base = <<>> /\ out = <<>>
    \/ /\ base /= <<>>
       /\ out /= <<>>
       /\ Head(base) = Head(out)
       /\ OnlyRedacts(Tail(base), Tail(out), token)
    \/ /\ Len(out) >= Len(token)
       /\ SubSeq(out, 1, Len(token)) = token
       /\ \E k \in 1..Len(base) :
            OnlyRedacts(SubSeq(base, k + 1, Len(base)),
                        SubSeq(out, Len(token) + 1, Len(out)), token)

\* C10 as stated: for every value llm.redact can return, the returned document
\* differs from the Pass-1 output only by spans replaced with the replacement
\* token.
C10_Pass2OnlyAddsRedactions ==
    (hf.pc = "returned" /\ hf.enable_llm) =>
        OnlyRedacts(Pass1.doc, hf.result.doc, hf.replacement)

(***************************************************************************)
(* Properties of run() (under Spec)                                        *)
(***************************************************************************)
Finished == pc \in {"returned", "raised"}

StepEvents == {"tool_call", "tool_result", "tool_error"}

\* the positions in the trace of the events recorded for step i
EventsOfStep(i) ==
    {k \in DOMAIN trace : trace[k].event_type \in StepEvents /\ trace[k].payload.step = i}

\* C1 as stated: with trace persistence disabled, run() returns a run result
\* and raises no exception, for every plan and every behaviour of the tools
\* and of the backend, including a backend call that raises.
C1_RunNeverRaises == pc /= "raised"

\* C7 as stated: when the invocation of a step's tool raises, the engine
\* appends one tool_error event with the error text for that step and then
\* processes every later step of the plan.
C7_ToolFailureNeverStopsLaterSteps ==
    Finished =>
        \A k \in DOMAIN trace :
            (trace[k].event_type = "tool_error" /\ trace[k].payload.error = ToolFailure) =>
                /\ Cardinality({m \in EventsOfStep(trace[k].payload.step) :
                                   trace[m].event_type = "tool_error"}) = 1
                /\ \A j \in (trace[k].payload.step + 1)..(Len(plan.steps) - 1) :
                       EventsOfStep(j) /= {}

\* C8 as stated: a step whose tool is not in the registry produces exactly one
\* tool_error event "Tool not found" and no tool_call or tool_result event;
\* the run goes on with the next step and returns a result.
C8_UnknownToolIsSkippedAndRunReturns ==
    Finished =>
        \A i \in 0..(idx - 1) :
            plan.steps[i + 1].tool \notin ToolRegistry =>
                /\ Cardinality(EventsOfStep(i)) = 1
                /\ \A k \in EventsOfStep(i) :
                       /\ trace[k].event_type = "tool_error"
                       /\ trace[k].payload.error = "Tool not found"
                /\ (i + 1 < Len(plan.steps) => idx > i)
                /\ pc = "returned"

(***************************************************************************)
(* Properties of plan() and plan_with_json_retries (under SpecPlan)        *)
(***************************************************************************)
\* C11: plan(instruction) never raises: it returns the backend's validated
\* plan, with company name, target language and steps unchanged, when the
\* backend succeeds, and the deterministic fallback plan for every failure of
\* the backend (invalid output on all attempts, exhausted retries, any
\* exception).
C11_PlanReturnsBackendPlanOrFallback ==
    /\ pc \in {"plan", "planned"}
    /\ pc = "planned" =>
          IF pj.pc = "returned"
          THEN /\ rawPlan.company_name = pj.result.company_name
               /\ rawPlan.target_language = pj.result.target_language
               /\ rawPlan.steps = pj.result.steps
          ELSE /\ rawPlan.target_language = S_en
               /\ rawPlan.company_name =
                     (IF FallbackTokens(instruction) = <<>> THEN S_UnknownCo
                      ELSE FallbackTokens(instruction)[Len(FallbackTokens(instruction))])
               /\ [i \in DOMAIN rawPlan.steps |-> rawPlan.steps[i].tool] =
                     <<"get_company_info", "mock_web_search", "translate_document",
                       "generate_document", "translate_document", "security_filter">>

C11_Witness ==
    /\ pc = "planned"
    /\ pj.pc = "raised"
    /\ Len(pj.errors) = MaxRetries + 1
    /\ instruction /= <<>>

\* C12: plan_with_json_retries calls generate at most retries+1 times; it
\* returns the validated object of the first attempt whose output extracts,
\* parses and validates, with no generate call after it; when all retries+1
\* attempts fail it raises a terminal error that carries the error of the last
\* attempt.
C12_AtMostRetriesPlusOneAttempts ==
    /\ Len(pj.prompts) <= pj.retries + 1
    /\ pj.pc = "returned" =>
          /\ Len(pj.raws) = Len(pj.prompts)
          /\ ~AttemptOutcome(pj.raws[Len(pj.raws)]).raised
          /\ pj.result = AttemptOutcome(pj.raws[Len(pj.raws)]).obj
          /\ \A k \in 1..(Len(pj.raws) - 1) : AttemptOutcome(pj.raws[k]).raised
    /\ (Len(pj.errors) = pj.retries + 1 /\ pj.pc /= "loop") =>
          /\ pj.pc = "raised"
          /\ Len(pj.error) = 1 + Len(pj.errors[Len(pj.errors)])
          /\ SubSeq(pj.error, 2, Len(pj.error)) = pj.errors[Len(pj.errors)]
          /\ pj.errors[Len(pj.errors)] = AttemptOutcome(pj.raws[Len(pj.raws)]).error

C12_Witness ==
    /\ pj.pc = "raised"
    /\ pj.retries = MaxRetries
    /\ Len(pj.errors) = MaxRetries + 1

\* the error messages an attempt can fail with
ErrorMessages ==
    {"Empty model output", "No JSON object start '{' found in output",
     "Unclosed JSON object in output", "ValidationError", "JSONDecodeError"}

\* how many elements of the text are in the set
Occurrences(text, tokens) == Cardinality({i \in DOMAIN text : text[i] \in tokens})

\* the text occurs in the other as a contiguous part
Contains(text, part) ==
    \E i \in 1..(Len(text) - Len(part) + 1) : SubSeq(text, i, i + Len(part) - 1) = part

\* C13: after a failed attempt k, the prompt of attempt k+1 contains the error
\* message of attempt k and the original instruction, and never the corrective
\* text or the error of an earlier attempt: corrective prompts do not nest and
\* do not grow with the number of retries.
C13_CorrectivePromptDoesNotNest ==
    \A k \in 1..(Len(pj.prompts) - 1) :
        LET prompt == pj.prompts[k + 1]
        IN  /\ Contains(prompt, pj.errors[k])
            /\ Contains(prompt, pj.instruction)
            /\ Occurrences(prompt, {S_previous_invalid}) = 1
            /\ Occurrences(prompt, ErrorMessages) = 1
            /\ Len(prompt) = Len(pj.prompts[1]) + 2 + Len(pj.errors[k])

C13_Witness ==
    /\ Len(pj.prompts) = MaxRetries + 1
    /\ Len(pj.errors) >= 2
    /\ pj.errors[1] /= pj.errors[2]

(***************************************************************************)
(* Properties of the JSON extraction (under SpecExtract)                   *)
(***************************************************************************)
\* the net depth of the braces of the text that are outside string literals,
\* where a backslash inside a string literal escapes the next character
RECURSIVE BraceDepth(_, _, _)
BraceDepth(text, in_str, esc) ==
    IF text = <<>> THEN 0
    ELSE LET ch == Head(text)
             rest == Tail(text)
         IN  IF in_str
             THEN BraceDepth(rest, esc \/ ch /= "\"", ~esc /\ ch = "\\")
             ELSE (IF ch = "{" THEN 1 ELSE IF ch = "}" THEN -1 ELSE 0)
                  + BraceDepth(rest, ch = "\"", FALSE)

\* the ends of the object that opens at the first "{" of the text
ObjectEnds(text) ==
    {e \in FindOpen(text)..Len(text) : BraceDepth(SubSeq(text, FindOpen(text), e), FALSE, FALSE) = 0}

HasObject(text) == FindOpen(text) /= None /\ ObjectEnds(text) /= {}

FirstObject(text) == SubSeq(text, FindOpen(text), SetMin(ObjectEnds(text)))

\* C14 as stated: for every raw text that contains a balanced top-level object,
\* coerce_to_json_text, one surrounding code fence removed, returns exactly the
\* first balanced top-level object, where braces inside string literals do not
\* count; text before and after it is not part of the result.
C14_CoerceReturnsFirstObject ==
    (cj.pc = "done" /\ HasObject(strip_markdown_fences(cj.raw))) =>
        /\ ~cj.coerced.raised
        /\ cj.coerced.text = FirstObject(strip_markdown_fences(cj.raw))

\* C15: extract_first_json_object raises, and returns no text, when the raw
\* text is empty, has no "{", or has a first "{" whose object is never closed
\* at depth zero; whenever it returns, the result starts with "{", ends with
\* "}" and has balanced braces outside string literals.
C15_ExtractRaisesOrReturnsBalanced ==
    cj.pc = "done" =>
        /\ (cj.raw = <<>> \/ ~HasObject(Strip(cj.raw))) =>
              (cj.extracted.raised /\ cj.extracted.text = <<>>)
        /\ ~cj.extracted.raised =>
              /\ Head(cj.extracted.text) = "{"
              /\ cj.extracted.text[Len(cj.extracted.text)] = "}"
              /\ BraceDepth(cj.extracted.text, FALSE, FALSE) = 0

C15_Witness ==
    /\ cj.pc = "done"
    /\ ~cj.extracted.raised
    /\ \E i \in DOMAIN cj.extracted.text : cj.extracted.text[i] = "\""
    /\ Occurrences(cj.extracted.text, {"}"}) >= 2
    /\ Len(cj.extracted.text) < Len(Strip(cj.raw))

(***************************************************************************)
(* Further properties of normalize_plan (under SpecNormalize)              *)
(***************************************************************************)
\* C19 as stated: in every normalized plan whose target language is not
\* English and that contains generate_document, a translate_document step with
\* source "final" occurs after a generate_document step and before the
\* security_filter step.
C19_FinalTranslateAfterGenerate ==
    (Normalized /\ ~IsEnglish(plan.target_language) /\ GenerateIndexes(plan.steps) /= {}) =>
        \E i \in FinalTranslateIndexes(plan.steps) :
            /\ \E g \in GenerateIndexes(plan.steps) : g < i
            /\ \A j \in SecurityIndexes(plan.steps) : i < j

\* C19 as the code has it: when the target language is not English, the plan
\* contains generate_document and the input plan has no translate_document step
\* with source "final", the normalized plan has exactly one such step, right
\* after the first generate_document step and before security_filter; a final
\* translate of the input plan is left where it is.
C19_InsertedFinalTranslateAfterGenerate ==
    (/\ Normalized
     /\ ~IsEnglish(plan.target_language)
     /\ GenerateIndexes(plan.steps) /= {}
     /\ FinalTranslateIndexes(rawPlan.steps) = {}) =>
        /\ FinalTranslateIndexes(plan.steps) = {FirstOf(GenerateIndexes(plan.steps)) + 1}
        /\ \A j \in SecurityIndexes(plan.steps) : FirstOf(GenerateIndexes(plan.steps)) + 1 < j

C19_Witness ==
    /\ pc = "n_once"
    /\ ~IsEnglish(rawPlan.target_language)
    /\ FinalTranslateIndexes(rawPlan.steps) = {}
    /\ Cardinality(GenerateIndexes(rawPlan.steps)) = 2
    /\ Len(plan.steps) = 5

\* C20 as stated: whenever the internal document text is non-blank, the
\* normalized plan contains a translate_document step whose source is not
\* "final", for every target language and every input plan.
C20_NonBlankDocHasInternalTranslate ==
    (Normalized /\ NonBlank(internal_document_text)) =>
        NonFinalTranslateIndexes(plan.steps) /= {}

\* C20 as the code has it: whenever the internal document text is non-blank
\* and the plan contains a generate_document step, the normalized plan contains
\* a translate_document step whose source is not "final", for every target
\* language, English included.
C20_NonBlankDocWithGenerateHasInternalTranslate ==
    (Normalized /\ NonBlank(internal_document_text) /\ GenerateIndexes(rawPlan.steps) /= {}) =>
        NonFinalTranslateIndexes(plan.steps) /= {}

C20_Witness ==
    /\ pc = "n_once"
    /\ NonBlank(internal_document_text)
    /\ rawPlan.target_language = S_en
    /\ GenerateIndexes(rawPlan.steps) /= {}
    /\ NonFinalTranslateIndexes(rawPlan.steps) = {}
    /\ NonFinalTranslateIndexes(plan.steps) /= {}

(***************************************************************************)
(* Further properties of hybrid_security_filter (under SpecFilter)         *)
(***************************************************************************)
\* C17 as stated: the matched terms returned by hybrid_security_filter are the
\* Pass-1 hits followed by the Pass-2 hits, duplicates removed and the first
\* occurrence kept, whether or not Pass 2 is enabled (disabled: no Pass-2 hits).
C17_MatchedTermsOrderPreservingUnion ==
    hf.pc = "returned" =>
        hf.result.hits =
            Dedupe(Pass1.hits \o (IF hf.enable_llm THEN hf.redact.hits ELSE <<>>))

(***************************************************************************)
(* Further properties of run() (under Spec)                                *)
(***************************************************************************)
\* the positions in the trace of the tool_result events of a tool
ResultsOf(tool) ==
    {k \in DOMAIN trace : trace[k].event_type = "tool_result" /\ trace[k].payload.tool = tool}

\* the tool_result events that produced a draft document: generate_document,
\* and translate_document called with source "final"
DraftResults ==
    ResultsOf("generate_document")
    \cup {k \in ResultsOf("translate_document") :
            \E c \in DOMAIN trace :
                /\ trace[c].event_type = "tool_call"
                /\ trace[c].payload.step = trace[k].payload.step
                /\ trace[c].payload.args["source"] = S_final}

\* C16: after all steps, the final document of the run is the document the
\* redact step recorded if a security_filter step ran successfully, and
\* otherwise the last draft document produced by generate_document or a
\* final-source translate, the empty string if no step produced one.
C16_FinalDocumentIsRedactedOrLastDraft ==
    pc = "returned" =>
        IF ResultsOf("security_filter") /= {}
        THEN /\ "final_document" \in DOMAIN ctx
             /\ final_doc = ctx["final_document"]
             /\ trace[SetMax(ResultsOf("security_filter"))].payload.output_preview
                   = StrOfPair(final_doc, redactions)
        ELSE IF DraftResults /= {}
             THEN final_doc = trace[SetMax(DraftResults)].payload.output_preview
             ELSE final_doc = <<>>

\* the redact step failed after a non-empty draft was produced
C16_Witness ==
    /\ pc = "returned"
    /\ ResultsOf("security_filter") = {}
    /\ DraftResults /= {}
    /\ final_doc /= <<>>

\* C18 as stated: if the agent is configured with no sensitive terms, the
\* redactions list of every run result is empty, whatever the backend returns.
C18_NoTermsNoRedactions ==
    (pc = "returned" /\ sensitive_terms = <<>>) => redactions = <<>>

(***************************************************************************)
(* Properties of Pass 1 (under SpecFilter)                                 *)
(***************************************************************************)
\* C21 as stated: Pass 1 puts the replacement token passed to the hybrid
\* filter in place of each matched span, for every token the caller gives.
C21_Pass1UsesReplacementToken ==
    (hf.pc = "returned" /\ ~hf.enable_llm /\ Pass1.hits /= <<>>) =>
        /\ Contains(hf.result.doc, hf.replacement)
        /\ \A token \in Replacements \ {hf.replacement} : ~Contains(hf.result.doc, token)

(***************************************************************************)
(* Properties of the fallback plan (under SpecPlan)                        *)
(***************************************************************************)
FellBack == pc = "planned" /\ pj.pc = "raised"

\* str.isalpha, for the letters of the model
IsAlpha(token) ==
    /\ token /= <<>>
    /\ \A i \in DOMAIN token :
          \E j \in DOMAIN UpperLetters : token[i] \in {UpperLetters[j], LowerLetters[j]}

AlphaTokens(text) == SelectSeq(FallbackTokens(text), IsAlpha)

\* C22 as stated: the fallback plan's company name is the last alphabetic
\* token of the instruction, punctuation stripped; a trailing token that is
\* not alphabetic is never chosen when an alphabetic token exists; the target
\* language is "en".
C22_FallbackCompanyIsLastAlphabeticToken ==
    FellBack =>
        /\ rawPlan.target_language = S_en
        /\ AlphaTokens(instruction) /= <<>> =>
              rawPlan.company_name = AlphaTokens(instruction)[Len(AlphaTokens(instruction))]

\* C23: for every instruction the fallback plan has exactly six steps, in this
\* order: get_company_info, mock_web_search, translate_document (source
\* internal, mode plain, empty document), generate_document, translate_document
\* (source final, mode briefing, empty document), security_filter.
C23_FallbackPlanHasSixCanonicalSteps ==
    FellBack =>
        /\ Len(rawPlan.steps) = 6
        /\ rawPlan.steps[1].tool = "get_company_info"
        /\ rawPlan.steps[2].tool = "mock_web_search"
        /\ rawPlan.steps[3].tool = "translate_document"
        /\ rawPlan.steps[3].args["source"] = S_internal
        /\ rawPlan.steps[3].args["mode"] = S_plain
        /\ rawPlan.steps[3].args["document"] = <<>>
        /\ rawPlan.steps[4].tool = "generate_document"
        /\ rawPlan.steps[5].tool = "translate_document"
        /\ rawPlan.steps[5].args["source"] = S_final
        /\ rawPlan.steps[5].args["mode"] = S_briefing
        /\ rawPlan.steps[5].args["document"] = <<>>
        /\ rawPlan.steps[6].tool = "security_filter"

C23_Witness ==
    /\ FellBack
    /\ pj.error = <<"generate raised">>
    /\ instruction = <<>>

(***************************************************************************)
(* Two runs on one agent (under SpecRerun)                                 *)
(***************************************************************************)
\* C24: in two successive runs on the same agent, the second run starts with
\* an empty draft document, an empty redaction list and a context holding only
\* that run's company, language and internal document; nothing the first run
\* wrote is visible to the second.
C24_ContextIsPerRun ==
    (runs = 2 /\ pc = "loop" /\ idx = 0) =>
        /\ draft_document = <<>>
        /\ redactions = <<>>
        /\ DOMAIN ctx = {"company_name", "target_language", "internal_document_text",
                         "translated_internal_doc"}
        /\ ctx["company_name"] = plan.company_name
        /\ ctx["target_language"] = plan.target_language
        /\ ctx["internal_document_text"] = internal_document_text
        /\ ctx["translated_internal_doc"] = <<>>

\* the second run has started after a first run that returned a document
C24_Witness ==
    /\ runs = 2
    /\ pc = "loop"
    /\ idx = 0
    /\ final_doc /= <<>>
    /\ plan.company_name = <<"V">>

(***************************************************************************)
(* Properties of the engine's steps and trace (under Spec)                 *)
(***************************************************************************)
\* C25 as stated: every run returns a final_document that is the document
\* output by the security_filter step; no run returns a draft document that no
\* redaction pass has processed.
C25_FinalDocumentIsFilterOutput ==
    pc = "returned" =>
        /\ ResultsOf("security_filter") /= {}
        /\ "final_document" \in DOMAIN ctx
        /\ final_doc = ctx["final_document"]

\* the positions in the trace of the events of one type recorded for step i
StepEventsOfType(i, event_type) ==
    {k \in EventsOfStep(i) : trace[k].event_type = event_type}

\* C26 as stated: the engine processes steps in plan order without reordering
\* or skipping: the step indices of the per-step events are non-decreasing and
\* cover every index 0..n-1; each step whose tool is in the registry has
\* exactly one tool_call event, followed by exactly one of tool_result or
\* tool_error, both before every event of the next step.
C26_StepsInPlanOrderNoneSkipped ==
    Finished =>
        /\ \A a, b \in DOMAIN trace :
              (/\ a < b
               /\ trace[a].event_type \in StepEvents
               /\ trace[b].event_type \in StepEvents) =>
                  trace[a].payload.step <= trace[b].payload.step
        /\ \A i \in 0..(Len(plan.steps) - 1) :
              /\ EventsOfStep(i) /= {}
              /\ plan.steps[i + 1].tool \in ToolRegistry =>
                    /\ Cardinality(StepEventsOfType(i, "tool_call")) = 1
                    /\ Cardinality(StepEventsOfType(i, "tool_result")
                                   \cup StepEventsOfType(i, "tool_error")) = 1
                    /\ \A k \in StepEventsOfType(i, "tool_call") :
                          k + 1 \in EventsOfStep(i)

IsPrefix(a, b) == Len(a) <= Len(b) /\ SubSeq(b, 1, Len(a)) = a

\* the trace of a returned run is framed by start, raw_plan, plan and end
Framed ==
    /\ Len(trace) >= 4
    /\ trace[1].event_type = "start"
    /\ trace[2].event_type = "raw_plan"
    /\ trace[3].event_type = "plan"
    /\ trace[Len(trace)].event_type = "end"
    /\ \A k \in 4..(Len(trace) - 1) : trace[k].event_type \in StepEvents
    /\ trace[2].payload.plan = rawPlan
    /\ (rawPlan.steps = <<>> \/ rawPlan.steps[Len(rawPlan.steps)].tool /= "security_filter")
          => trace[2].payload.plan /= trace[3].payload.plan

\* C27: the trace of a completed run is append-only and framed: its first
\* three events are start, raw_plan and plan, its last event is the single end
\* event, all per-step events lie between plan and end, no event once appended
\* is removed or changed, and the raw_plan event records the plan as it was
\* before normalization.
C27_TraceAppendOnlyAndFramed ==
    /\ [](pc = "returned" => Framed)
    /\ [][IsPrefix(trace, trace')]_vars

C27_Witness ==
    /\ pc = "returned"
    /\ Len(trace) = 12
    /\ trace[2].payload.plan /= trace[3].payload.plan

\* an iteration of the loop has just recorded a tool_call for the tool
CallRecorded(tool) ==
    /\ pc = "loop"
    /\ pc' = "loop"
    /\ Len(trace') > Len(trace)
    /\ trace'[Len(trace) + 1].event_type = "tool_call"
    /\ trace'[Len(trace) + 1].payload.tool = tool

RecordedArgs == trace'[Len(trace) + 1].payload.args

\* C28 as stated: the document passed to translate_document is the context's
\* translated_internal_doc unless the step's source is "final", in which case
\* it is the current draft document; a document declared by the step is ignored.
C28_TranslateReadsTranslatedInternalDoc ==
    [][CallRecorded("translate_document") =>
          RecordedArgs["document"] =
              (IF RecordedArgs["source"] = S_final THEN draft_document
               ELSE ctx["translated_internal_doc"])]_vars

\* C28 as the code has it: the document passed to translate_document is the
\* internal document text given to run() unless the step's source is "final",
\* in which case it is the current draft document; a document declared by the
\* step is ignored.
C28_TranslateReadsInternalDocumentText ==
    [][CallRecorded("translate_document") =>
          RecordedArgs["document"] =
              (IF RecordedArgs["source"] = S_final THEN draft_document
               ELSE internal_document_text)]_vars

\* an internal translate step that declares a document was passed the run's
\* internal document instead
C28_Witness ==
    \E k \in DOMAIN trace :
        /\ trace[k].event_type = "tool_call"
        /\ trace[k].payload.tool = "translate_document"
        /\ trace[k].payload.args["source"] /= S_final
        /\ Get(plan.steps[trace[k].payload.step + 1].args, "document", <<>>) = <<"d">>
        /\ trace[k].payload.args["document"] = <<"a","b">>

\* C29: a security_filter step always receives the current draft document as
\* its document argument, whatever the step declares: the draft left by the
\* last successful generate_document or final-source translate step before it,
\* the empty string when there is none.
C29_FilterReceivesCurrentDraft ==
    \A k \in DOMAIN trace :
        (trace[k].event_type = "tool_call" /\ trace[k].payload.tool = "security_filter") =>
            trace[k].payload.args["document"] =
                (IF {d \in DraftResults : d < k} = {} THEN <<>>
                 ELSE trace[SetMax({d \in DraftResults : d < k})].payload.output_preview)

C29_Witness ==
    \E k \in DOMAIN trace :
        /\ trace[k].event_type = "tool_call"
        /\ trace[k].payload.tool = "security_filter"
        /\ trace[k].payload.args["document"] /= <<>>
        /\ Cardinality({d \in DraftResults : d < k}) = 2

\* C30: a successful translate step with source "final" replaces the draft
\* document with its output and leaves translated_internal_doc unchanged; a
\* successful translate step with any other source sets translated_internal_doc
\* to its output and leaves the draft document unchanged.
C30_TranslateWritesOneSlot ==
    [][(/\ CallRecorded("translate_document")
        /\ trace'[Len(trace')].event_type = "tool_result") =>
          IF RecordedArgs["source"] = S_final
          THEN /\ draft_document' = trace'[Len(trace')].payload.output_preview
               /\ ctx'["translated_internal_doc"] = ctx["translated_internal_doc"]
          ELSE /\ ctx'["translated_internal_doc"] = trace'[Len(trace')].payload.output_preview
               /\ draft_document' = draft_document]_vars

\* a final-source translate has replaced a draft while an internal translation
\* was in the context
C30_Witness ==
    /\ pc = "loop"
    /\ trace[Len(trace)].event_type = "tool_result"
    /\ trace[Len(trace)].payload.tool = "translate_document"
    /\ trace[Len(trace) - 1].payload.args["source"] = S_final
    /\ draft_document = <<"t","B">>
    /\ ctx["translated_internal_doc"] = <<"a","b">>

\* C31: a step that ends in a tool_error event (unknown tool or exception from
\* the tool) leaves the draft document, the redaction list and every context
\* slot exactly as they were before the step; only the trace grows.
C31_ToolErrorStepChangesOnlyTrace ==
    [][(Len(trace') > Len(trace) /\ trace'[Len(trace')].event_type = "tool_error")
         => /\ UNCHANGED <<ctx, draft_document, redactions>>
            /\ IsPrefix(trace, trace')]_vars

\* a tool raised in a step that had a non-empty draft and a context with
\* company information in front of it
C31_Witness ==
    /\ pc = "loop"
    /\ Len(trace) > 3
    /\ trace[Len(trace)].event_type = "tool_error"
    /\ trace[Len(trace)].payload.error = ToolFailure
    /\ draft_document /= <<>>
    /\ "draft_document" \in DOMAIN ctx

\* the steps of a plan that are not security_filter steps
NonSecuritySteps(steps) == SelectSeq(steps, LAMBDA st : ~IsSecurity(st))

\* steps, and steps with one non-final translate that stood after the first
\* generate_document moved to immediately before it
WithOneMoved(steps) ==
    {steps} \cup
    (IF GenerateIndexes(steps) = {} THEN {}
     ELSE LET g == FirstOf(GenerateIndexes(steps))
          IN  {ListInsert(ListPop(steps, t), g, steps[t + 1]) :
                 t \in {i \in NonFinalTranslateIndexes(steps) : i > g}})

\* steps, and steps with x inserted at any one position
WithOneInserted(steps, x) == {steps} \cup {ListInsert(steps, i, x) : i \in 0..Len(steps)}

\* C32: normalization never drops, duplicates or alters a non-security_filter
\* step of the input plan and never changes the plan's company name or target
\* language: the output's non-security_filter steps are the input's, in the
\* same relative order except that at most one non-final translate step is
\* moved to immediately before the first generate_document, plus at most one
\* inserted internal translate and at most one inserted final translate.
C32_NormalizationKeepsPlannerSteps ==
    Normalized =>
        /\ plan.company_name = rawPlan.company_name
        /\ plan.target_language = rawPlan.target_language
        /\ \E moved \in WithOneMoved(NonSecuritySteps(rawPlan.steps)) :
             \E b \in WithOneInserted(moved, InternalTranslateStep(rawPlan.target_language)) :
               NonSecuritySteps(plan.steps)
                   \in WithOneInserted(b, FinalTranslateStep(rawPlan.target_language))

\* a plan whose security_filter step was replaced, whose translate step was
\* moved in front of generate_document and that received a final translate
C32_Witness ==
    /\ pc = "n_once"
    /\ NonBlank(internal_document_text)
    /\ ~IsEnglish(rawPlan.target_language)
    /\ SecurityIndexes(rawPlan.steps) /= {}
    /\ FinalTranslateIndexes(rawPlan.steps) = {}
    /\ FirstOf(GenerateIndexes(rawPlan.steps)) /= None
    /\ FirstOf(NonFinalTranslateIndexes(rawPlan.steps))
         > FirstOf(GenerateIndexes(rawPlan.steps))
    /\ NonSecuritySteps(plan.steps) /= NonSecuritySteps(rawPlan.steps)
    /\ Len(plan.steps) = Len(rawPlan.steps) + 1

\* rule (C) inserted a step: the output has one more final translate than the
\* input (rules (A) and (B) neither add nor remove one)
FinalTranslateInserted ==
    Cardinality(FinalTranslateIndexes(plan.steps))
        > Cardinality(FinalTranslateIndexes(rawPlan.steps))

\* C33: when rule (C) inserts a final-source translate step, the step is
\* placed immediately after the first generate_document step if the plan has
\* one, and otherwise immediately before the security_filter step; no step is
\* inserted when the target language is "en" or "english" in any letter case
\* or when a translate step with source "final" already exists.
C33_FinalTranslatePlacement ==
    Normalized =>
        /\ FinalTranslateInserted =>
              \E i \in FinalTranslateIndexes(plan.steps) :
                /\ plan.steps[i + 1] = FinalTranslateStep(rawPlan.target_language)
                /\ IF GenerateIndexes(plan.steps) /= {}
                   THEN i = FirstOf(GenerateIndexes(plan.steps)) + 1
                   ELSE i + 1 \in SecurityIndexes(plan.steps)
        /\ (\/ Lower(rawPlan.target_language) \in {S_en, S_english}
            \/ FinalTranslateIndexes(rawPlan.steps) /= {}) => ~FinalTranslateInserted

\* a non-English plan with steps but no generate_document received its final
\* translate right in front of security_filter
C33_Witness ==
    /\ pc = "n_once"
    /\ ~IsEnglish(rawPlan.target_language)
    /\ Len(rawPlan.steps) >= 2
    /\ GenerateIndexes(rawPlan.steps) = {}
    /\ FinalTranslateInserted
    /\ FinalTranslateIndexes(plan.steps) = {Len(plan.steps) - 2}

\* C34: the output preview stored in every tool_result trace event is at most
\* 400 characters long, for tool outputs of any length.
C34_PreviewAtMost400 ==
    \A i \in DOMAIN trace :
        trace[i].event_type = "tool_result" =>
            Len(trace[i].payload.output_preview) <= 400

\* C35: the normalizer and the engine classify every translate_document step
\* the same way: a step the normalizer counts as internal (source not equal to
\* "final") is executed by the engine as an internal translation that does not
\* replace the draft, and a step the engine executes as a final translation is
\* counted by the normalizer as the final-source translate, for every source
\* value including other letter cases and surrounding whitespace.
C35_NormalizerAndEngineAgreeOnSource ==
    [][(InLoop /\ CurStep.tool = "translate_document" /\ idx' = idx + 1) =>
          LET recorded == trace'[Len(trace) + 1].payload.args
          IN  /\ IsNonFinalTranslate(CurStep) =>
                    /\ recorded["source"] /= S_final
                    /\ draft_document' = draft_document
              /\ recorded["source"] = S_final => IsFinalTranslate(CurStep)]_vars

\* the run's planner failed: the raw plan is the fallback plan
RunFellBack == pc \notin {"start"} /\ rawPlan = _fallback_plan(instruction)

\* C36: the fallback plan is a fixed point of normalization: for every
\* instruction and every internal document text (blank or not),
\* normalize_plan applied to the fallback plan returns a plan with the same
\* six steps and the same arguments.
C36_FallbackPlanIsNormalized ==
    RunFellBack =>
        /\ Len(plan.steps) = 6
        /\ plan = rawPlan
        /\ \A text \in InternalDocs \cup RunDocs : normalize_plan(rawPlan, text) = rawPlan

\* the fallback plan of a non-empty instruction was normalized with a
\* non-blank internal document
C36_Witness ==
    /\ RunFellBack
    /\ pc = "loop"
    /\ idx = 0
    /\ instruction /= <<>>
    /\ NonBlank(internal_document_text)

\* a generate call was made that returned no text
GenerateFailed == Len(pj.prompts) > Len(pj.raws)

\* C37: an exception raised by the generate function itself (as opposed to a
\* parse or validation failure of its output) is not retried:
\* plan_with_json_retries propagates it at once, makes no further generate
\* call and does not wrap it in the terminal error.
C37_GenerateExceptionPropagatesAtOnce ==
    /\ [](GenerateFailed =>
            /\ pj.pc = "raised"
            /\ pj.raised
            /\ pj.error = <<"generate raised">>
            /\ Len(pj.prompts) = Len(pj.raws) + 1)
    /\ [][GenerateFailed => pj' = pj]_vars

\* generate raised on a retry, after an attempt whose output did not parse,
\* with retries left, and plan() has finished
C37_Witness ==
    /\ pc = "planned"
    /\ GenerateFailed
    /\ Len(pj.raws) = 1
    /\ Len(pj.errors) = 1
    /\ pj.retries = MaxRetries

\* C38: Pass 1 is complete: after security_filter has processed all sensitive
\* terms in order, its output contains no match of the obfuscation-tolerant
\* pattern of any non-blank sensitive term, for every document and every list
\* of terms, including terms that overlap the replacement token and terms
\* processed before a later substitution.
C38_Pass1LeavesNoMatch ==
    hf.pc \in {"returned", "raised"} =>
        \A i \in DOMAIN hf.sensitive_terms :
            NonBlank(hf.sensitive_terms[i]) =>
                ~PatternSearch(Strip(hf.sensitive_terms[i]), Pass1.doc)
====
